---- MODULE Spec2Model ----
(***************************************************************************)
(* Model of the stemSprouts backend bootstrap:                             *)
(*   api/core/config.py    - the pydantic-settings record and its loading  *)
(*   api/routers/system.py - the /healthz and /version handlers            *)
(*   tests/test_app_bootstrap.py - the operations the contract tests run   *)
(*     (setenv/delenv, importlib.reload of the config module, test-only    *)
(*     routes, requests through the test client)                           *)
(* api/main.py and api/core/errors.py are not part of the sources; the     *)
(* application wiring and the error boundary are modelled from the         *)
(* written specification (sections 4.2, 6, 7).                             *)
(***************************************************************************)
EXTENDS Integers, Sequences, FiniteSets, TLC

VARIABLES
    env,          \* the process environment: variable name -> value or Unset
    dotenv,       \* the .env file at the repository root: key -> value or Unset
    settings,     \* api.core.config.settings   (config.py line 12)
    cfgVersion,   \* api.core.config.APP_VERSION (config.py line 20)
    sysVersion,   \* api.routers.system.APP_VERSION (system.py line 4)
    routes,       \* the application's route table
    alive,        \* the serving process is up
    lastOp,       \* the operation that produced this state
    lastReq,      \* the last request sent
    resp          \* the response to lastReq

vars == <<env, dotenv, settings, cfgVersion, sysVersion, routes, alive,
          lastOp, lastReq, resp>>

-----------------------------------------------------------------------------
(* Inputs: the environment and the .env file.                              *)

Unset == "<unset>"

\* The variables the tests set (test lines 185, 217-221) and one variable
\* that no part of the program knows.
EnvKeys == {"APP_VERSION", "APP_ENV", "MAX_BODY_BYTES", "ALLOWED_ORIGINS",
            "UNRELATED_VAR"}

EnvValues(k) ==
    CASE k = "APP_VERSION"     -> {"9.9.9"}
      [] k = "APP_ENV"         -> {"dev", "staging"}
      [] k = "MAX_BODY_BYTES"  -> {"1234"}
      [] k = "ALLOWED_ORIGINS" -> {"https://a,https://b"}
      [] OTHER                 -> {"x"}

DotenvKeys == {"APP_VERSION", "EXTRA_KEY"}

DotenvValues(k) ==
    CASE k = "APP_VERSION" -> {"1.2.3"}
      [] OTHER             -> {"y"}

EnvStates ==
    {e \in [EnvKeys -> {Unset, "9.9.9", "dev", "staging", "1234",
                        "https://a,https://b", "x"}] :
        \A k \in EnvKeys : e[k] = Unset \/ e[k] \in EnvValues(k)}

DotenvStates ==
    {d \in [DotenvKeys -> {Unset, "1.2.3", "y"}] :
        \A k \in DotenvKeys : d[k] = Unset \/ d[k] \in DotenvValues(k)}

-----------------------------------------------------------------------------
(* api/core/config.py: class Settings(BaseSettings)                        *)

\* The declared fields and their defaults (config.py line 7).
Fields == {"APP_VERSION"}
FieldDefault == [APP_VERSION |-> "0.0.0"]

\* model_config = SettingsConfigDict(env_file=".env", extra="ignore")
ExtraPolicyForbid == "forbid"
ExtraPolicy == "ignore"

\* The outcome of a load that raises a validation error.
LoadError == [ValidationError |-> TRUE]

\* The environment source reads the variables named after declared fields.
EnvSettingsSource(e) ==
    [f \in {k \in Fields \cap DOMAIN e : e[k] # Unset} |-> e[f]]

\* The .env source reads the declared fields and hands every other key of
\* the file on to validation as an extra input.
DotEnvSettingsSource(d) ==
    [k \in {x \in DOMAIN d : d[x] # Unset} |-> d[k]]

\* deep_update: the keys of upd replace those of base.
DeepUpdate(base, upd) ==
    [k \in DOMAIN base \cup DOMAIN upd |->
        IF k \in DOMAIN upd THEN upd[k] ELSE base[k]]

\* Source precedence: the environment over the .env file.
BuildValuesDotenvFirst(e, d) ==
    DeepUpdate(EnvSettingsSource(e), DotEnvSettingsSource(d))
BuildValues(e, d) ==
    DeepUpdate(DotEnvSettingsSource(d), EnvSettingsSource(e))

\* Model validation: extras are rejected, dropped or kept by the extra
\* policy; a declared field without an input takes its default.
Validate(raw) ==
    LET extras == DOMAIN raw \ Fields
    IN  IF ExtraPolicy = "forbid" /\ extras # {}
        THEN LoadError
        ELSE [f \in Fields \cup (IF ExtraPolicy = "allow" THEN extras ELSE {})
                |-> IF f \in DOMAIN raw THEN raw[f] ELSE FieldDefault[f]]

\* Settings(): config.py line 12.
LoadSettings(e, d) == Validate(BuildValues(e, d))

\* get_settings(): config.py lines 15-16.
get_settings == settings

-----------------------------------------------------------------------------
(* api/routers/system.py                                                   *)

\* router = APIRouter(prefix="/system")
RouterPrefix == "/system"

\* @router.get("/healthz") and @router.get("/version"): a route's path is
\* the router's prefix followed by the decorator's path.
RouterRoutes ==
    { [method |-> "GET", path |-> RouterPrefix \o "/healthz",
       handler |-> "health"],
      [method |-> "GET", path |-> RouterPrefix \o "/version",
       handler |-> "get_version"] }

\* async def health()
health == [ok |-> TRUE]

\* async def get_version(): returns the module-level APP_VERSION, the value
\* bound when system.py was imported (system.py line 4).
get_version == [version |-> sysVersion]

-----------------------------------------------------------------------------
(* tests/test_app_bootstrap.py: the test-only routes                       *)

\* @app.get("/__boom__") def _boom(): raise RuntimeError("boom")
BoomRoute == [method |-> "GET", path |-> "/__boom__", handler |-> "_boom"]

\* class Payload(BaseModel): x: int
\* @app.post("/__validate__") def _validate(p: Payload): return {"ok": True}
ValidateRoute ==
    [method |-> "POST", path |-> "/__validate__", handler |-> "_validate"]

\* JSON values of the request bodies, tagged with their JSON type.
JInt(n) == [t |-> "int", v |-> n]
JStr(s) == [t |-> "str", v |-> s]
NoBody == [t |-> "none", v |-> 0]

\* Strings that read as an integer, among the strings of the model.
NumericStrings == {"12"}

\* Payload's validation of x: an integer, or a string that reads as one.
PayloadValid(body) ==
    \/ body.t = "int"
    \/ body.t = "str" /\ body.v \in NumericStrings

_validate == [ok |-> TRUE]

-----------------------------------------------------------------------------
(* The application (api/main.py) and its error boundary                    *)
(* (api/core/errors.py), modelled from the written specification.          *)

\* The application includes the system router as the router declares it.
AppRoutes == RouterRoutes

\* A details object with no entries.
EmptyObject == [k \in {} |-> ""]

\* The envelope {error: {code, message, details}}.
Envelope(code, message) ==
    [error |-> [code |-> code, message |-> message, details |-> EmptyObject]]

\* The framework's own answers, as sent when no boundary rewrites them.
TranslateUnwrapped(fault) ==
    CASE fault = "RouteMiss" ->
            [status |-> 404, body |-> [detail |-> "Not Found"], crashed |-> FALSE]
      [] fault = "ValidationFailure" ->
            [status |-> 422, body |-> [detail |-> "Unprocessable"], crashed |-> FALSE]
      [] fault = "UnhandledFault" ->
            [status |-> 500, body |-> [detail |-> "Internal Server Error"],
             crashed |-> FALSE]
\* A boundary that answers an unhandled fault and then lets it end the
\* process.
TranslateCrashing(fault) ==
    CASE fault = "RouteMiss" ->
            [status |-> 404, body |-> Envelope("NOT_FOUND", "Not found"),
             crashed |-> FALSE]
      [] fault = "ValidationFailure" ->
            [status |-> 422,
             body |-> Envelope("VALIDATION_ERROR", "Validation failed"),
             crashed |-> FALSE]
      [] fault = "UnhandledFault" ->
            [status |-> 500,
             body |-> Envelope("INTERNAL", "Internal server error"),
             crashed |-> TRUE]
\* The boundary translator, keyed by fault category (spec 4.2, 7, 9).
Translate(fault) ==
    CASE fault = "RouteMiss" ->
            [status |-> 404, body |-> Envelope("NOT_FOUND", "Not found"),
             crashed |-> FALSE]
      [] fault = "ValidationFailure" ->
            [status |-> 422,
             body |-> Envelope("VALIDATION_ERROR", "Validation failed"),
             crashed |-> FALSE]
      [] fault = "UnhandledFault" ->
            [status |-> 500,
             body |-> Envelope("INTERNAL", "Internal server error"),
             crashed |-> FALSE]

Ok(body) == [status |-> 200, body |-> body, crashed |-> FALSE]

\* The routes of table rs that serve request rq.
Matching(rs, rq) == {r \in rs : r.method = rq.method /\ r.path = rq.path}

\* The handler's run: its result, or the fault it ends in.
RunHandler(h, rq) ==
    CASE h = "health"      -> Ok(health)
      [] h = "get_version" -> Ok(get_version)
      [] h = "_boom"       -> Translate("UnhandledFault")
      [] h = "_validate"   -> IF PayloadValid(rq.body)
                              THEN Ok(_validate)
                              ELSE Translate("ValidationFailure")

\* Routing, then the handler, each fault passing through the boundary.
Dispatch(rs, rq) ==
    IF Matching(rs, rq) = {}
    THEN Translate("RouteMiss")
    ELSE RunHandler((CHOOSE r \in Matching(rs, rq) : TRUE).handler, rq)

-----------------------------------------------------------------------------
(* The requests the model sends.                                           *)

GetPaths == {"/healthz", "/version", "/system/healthz", "/system/version",
             "/__this_path_does_not_exist__", "/__boom__"}

Bodies == {JInt(1), JStr("not-int"), JStr("12")}

Requests ==
    {[method |-> "GET", path |-> p, body |-> NoBody] : p \in GetPaths}
    \cup {[method |-> "POST", path |-> "/__validate__", body |-> b] : b \in Bodies}

NoRequest == [method |-> "NONE", path |-> "", body |-> NoBody]
NoResponse == [status |-> 0, body |-> EmptyObject]

-----------------------------------------------------------------------------
(* State machine.                                                          *)

\* The state once api.main, and with it config.py and system.py, has been
\* imported under some environment and .env file.
Init ==
    /\ env \in EnvStates
    /\ dotenv \in DotenvStates
    /\ LoadSettings(env, dotenv) # LoadError
    /\ settings = LoadSettings(env, dotenv)
    /\ cfgVersion = settings.APP_VERSION
    /\ sysVersion = settings.APP_VERSION
    /\ routes = AppRoutes
    /\ alive = TRUE
    /\ lastOp = "import"
    /\ lastReq = NoRequest
    /\ resp = NoResponse

\* monkeypatch.setenv(k, v)
SetEnv(k, v) ==
    /\ env[k] # v
    /\ env' = [env EXCEPT ![k] = v]
    /\ lastOp' = "environ"
    /\ UNCHANGED <<dotenv, settings, cfgVersion, sysVersion, routes, alive,
                   lastReq, resp>>

\* monkeypatch.delenv(k, raising=False)
DelEnv(k) ==
    /\ env[k] # Unset
    /\ env' = [env EXCEPT ![k] = Unset]
    /\ lastOp' = "environ"
    /\ UNCHANGED <<dotenv, settings, cfgVersion, sysVersion, routes, alive,
                   lastReq, resp>>

\* The .env file is edited between loads.
WriteDotenv(k, v) ==
    /\ dotenv[k] # v
    /\ dotenv' = [dotenv EXCEPT ![k] = v]
    /\ lastOp' = "environ"
    /\ UNCHANGED <<env, settings, cfgVersion, sysVersion, routes, alive,
                   lastReq, resp>>

\* importlib.reload(api.core.config): config.py runs again; a load that
\* raises leaves the module's old bindings. system.py does not run again.
ReloadConfig ==
    /\ LET s == LoadSettings(env, dotenv)
       IN  IF s = LoadError
           THEN /\ lastOp' = "reload_failed"
                /\ UNCHANGED <<settings, cfgVersion>>
           ELSE /\ settings' = s
                /\ cfgVersion' = s.APP_VERSION
                /\ lastOp' = "reload"
    /\ UNCHANGED <<env, dotenv, sysVersion, routes, alive, lastReq, resp>>

\* test_500_maps_to_INTERNAL registers its route.
AddBoomRoute ==
    /\ BoomRoute \notin routes
    /\ routes' = routes \cup {BoomRoute}
    /\ lastOp' = "add_route"
    /\ UNCHANGED <<env, dotenv, settings, cfgVersion, sysVersion, alive,
                   lastReq, resp>>

\* test_422_maps_to_VALIDATION_ERROR registers its route.
AddValidateRoute ==
    /\ ValidateRoute \notin routes
    /\ routes' = routes \cup {ValidateRoute}
    /\ lastOp' = "add_route"
    /\ UNCHANGED <<env, dotenv, settings, cfgVersion, sysVersion, alive,
                   lastReq, resp>>

\* A request through the test client.
Request(rq) ==
    /\ alive
    /\ LET out == Dispatch(routes, rq)
       IN  /\ resp' = [status |-> out.status, body |-> out.body]
           /\ alive' = ~out.crashed
    /\ lastReq' = rq
    /\ lastOp' = "request"
    /\ UNCHANGED <<env, dotenv, settings, cfgVersion, sysVersion, routes>>

Next ==
    \/ \E k \in EnvKeys : \E v \in EnvValues(k) : SetEnv(k, v)
    \/ \E k \in EnvKeys : DelEnv(k)
    \/ \E k \in DotenvKeys : \E v \in DotenvValues(k) \cup {Unset} : WriteDotenv(k, v)
    \/ ReloadConfig
    \/ AddBoomRoute
    \/ AddValidateRoute
    \/ \E rq \in Requests : Request(rq)

Spec == Init /\ [][Next]_vars

-----------------------------------------------------------------------------
(* Properties.                                                             *)

\* The state is the one a load, or a request, has just produced.
JustLoaded == lastOp \in {"import", "reload"}
Served == lastOp = "request"

\* The handler that served the last request, "" when no route matched.
ServedBy ==
    IF Matching(routes, lastReq) = {} THEN ""
    ELSE (CHOOSE r \in Matching(routes, lastReq) : TRUE).handler

\* C1: once the configuration has been reloaded, the version a response of
\* the /version handler carries is the APP_VERSION of the record that
\* get_settings() returns at that moment.
C1_VersionFollowsReload ==
    (Served /\ ServedBy = "get_version")
        => /\ resp.status = 200
           /\ DOMAIN resp.body = {"version"}
           /\ resp.body.version = get_settings.APP_VERSION

\* C2: GET /version answers 200 with exactly {"version": v}, v the
\* APP_VERSION of the resolved settings record.
C2_VersionContract ==
    (Served /\ lastReq.method = "GET" /\ lastReq.path = "/version")
        => /\ resp.status = 200
           /\ DOMAIN resp.body = {"version"}
           /\ resp.body.version = settings.APP_VERSION

\* C3: GET /healthz, exactly that path, is served by the health handler and
\* answers 200 with exactly {"ok": true}.
C3_HealthzContract ==
    (Served /\ lastReq.method = "GET" /\ lastReq.path = "/healthz")
        => /\ ServedBy = "health"
           /\ resp.status = 200
           /\ DOMAIN resp.body = {"ok"}
           /\ resp.body.ok = TRUE

\* The error envelope: the only top-level key is error, and error holds a
\* string code, a non-empty string message and an object details.
IsEnvelope(body) ==
    /\ DOMAIN body = {"error"}
    /\ {"code", "message", "details"} \subseteq DOMAIN body.error
    /\ body.error.code \in STRING
    /\ body.error.message \in STRING
    /\ body.error.message # ""
    /\ DOMAIN body.error.details \subseteq STRING

C5_FaultMapping ==
    Served =>
        /\ ServedBy = ""
            => resp.status = 404 /\ resp.body.error.code = "NOT_FOUND"
        /\ (ServedBy = "_validate" /\ ~PayloadValid(lastReq.body))
            => resp.status = 422 /\ resp.body.error.code = "VALIDATION_ERROR"
        /\ ServedBy = "_boom"
            => /\ resp.status = 500
               /\ resp.body.error.code = "INTERNAL"
               /\ alive
               /\ \A rq \in Requests : ENABLED Request(rq)

C5_Witness ==
    /\ Served
    /\ ServedBy = "_boom"
    /\ resp.status = 500
    /\ alive

\* C6: after a load each declared field holds the environment's value when
\* the variable is set, else the .env file's value when the key is there,
\* else the declared default.
C6_ResolutionOrder ==
    JustLoaded =>
        \A f \in Fields :
            /\ f \in DOMAIN settings
            /\ settings[f] = IF env[f] # Unset THEN env[f]
                             ELSE IF dotenv[f] # Unset THEN dotenv[f]
                             ELSE FieldDefault[f]

C6_Witness ==
    /\ lastOp = "reload"
    /\ env["APP_VERSION"] = "9.9.9"
    /\ dotenv["APP_VERSION"] = "1.2.3"
    /\ settings.APP_VERSION = "9.9.9"

\* C7: the loaded record has an integer field MAX_BODY_BYTES, 65536 when
\* the variable is unset and 1234 when it is set to "1234".
C7_MaxBodyBytes ==
    JustLoaded =>
        /\ "MAX_BODY_BYTES" \in DOMAIN settings
        /\ env["MAX_BODY_BYTES"] = Unset => settings.MAX_BODY_BYTES = 65536
        /\ env["MAX_BODY_BYTES"] = "1234" => settings.MAX_BODY_BYTES = 1234

\* C8: the loaded record has a field ALLOWED_ORIGINS, the raw value split
\* on commas in order: "https://a,https://b" gives <<"https://a", "https://b">>.
C8_AllowedOrigins ==
    JustLoaded =>
        /\ "ALLOWED_ORIGINS" \in DOMAIN settings
        /\ env["ALLOWED_ORIGINS"] = "https://a,https://b"
            => settings.ALLOWED_ORIGINS = <<"https://a", "https://b">>

\* C9: a load succeeds only with APP_ENV unset or one of local, dev, prod,
\* and the loaded record's APP_ENV is one of the three.
C9_AppEnvEnumerated ==
    JustLoaded =>
        /\ env["APP_ENV"] \in {Unset, "local", "dev", "prod"}
        /\ "APP_ENV" \in DOMAIN settings
        /\ settings.APP_ENV \in {"local", "dev", "prod"}

\* An environment or .env file with every key that is no declared field
\* taken out.
Declared(m) == [k \in DOMAIN m |-> IF k \in Fields THEN m[k] ELSE Unset]

\* C10: no load fails on a key that is no declared field, and the loaded
\* record is the one the load gives with those keys absent.
C10_UnknownKeysIgnored ==
    /\ lastOp # "reload_failed"
    /\ JustLoaded => settings = LoadSettings(Declared(env), Declared(dotenv))

C10_Witness ==
    /\ lastOp = "reload"
    /\ env["UNRELATED_VAR"] = "x"
    /\ env["APP_ENV"] = "staging"
    /\ dotenv["EXTRA_KEY"] = "y"

====
